---- MODULE Spec2Model ----
(***************************************************************************)
(* floki-proxy: a forward HTTP proxy that injects failures.                *)
(*                                                                         *)
(* The module models                                                       *)
(*   - types/counters.go          MethodCounters (Add, PrintCounters)      *)
(*   - unnamed/part_000           FailingPrefixCode (String, Set)          *)
(*   - unnamed/part_001           the current proxy (mainHandler,          *)
(*                                shouldFail, shouldFailByPrefix)          *)
(*   - unnamed/part_002           the first variant of the proxy           *)
(*   - unnamed/part_003           the body-buffering variant (storeBody)   *)
(*                                                                         *)
(* Specifications                                                          *)
(*   Spec          part_001's handlers, concurrent, with the counters      *)
(*   SpecCounters  counters.go under concurrent callers and the ticker     *)
(*   SpecFail      part_001's shouldFail as a function of rate and draw    *)
(*   SpecSet       part_000's FailingPrefixCode.Set on every input string  *)
(*   Spec002       part_002's handler                                      *)
(*   Spec003       part_003's handler with storeBody                       *)
(*                                                                         *)
(* Strings are sequences of one-character strings, so that Split,          *)
(* HasPrefix and Atoi are computed character by character.                 *)
(***************************************************************************)
EXTENDS Integers, Sequences, FiniteSets, TLC

VARIABLES
    failureRate,          \* part_001:25  -failure-rate
    failureTransferRate,  \* part_001:26  -failure-transfer-rate
    failWithPrefix,       \* part_001:27  types.FailingPrefixCode (map prefix -> code)
    data,                 \* counters.go:11  mc.data, map method -> count
    m,                    \* counters.go:12  mc.m, TRUE while the mutex is held
    req,                  \* part_001: the request each connection's goroutine is handling
    started,              \* number of requests handed to mainHandler so far
    passed,               \* per method, the requests that passed both gates (history)
    caller,               \* SpecCounters: the goroutines calling MethodCounters.Add
    calls,                \* SpecCounters: number of Add calls made so far
    added,                \* SpecCounters: per method, the sum of the deltas passed to Add
    ticker,               \* part_001:141 the printCounters goroutine
    out,                  \* the last dump PrintCounters wrote to stdout
    sf,                   \* SpecFail: the last call of shouldFail and its result
    setCall,              \* SpecSet: the call of FailingPrefixCode.Set and its result
    failWithPrefixS,      \* part_002:21, part_003:26  -fail-with-prefix, a string
    req2,                 \* part_002: the request its handler is serving
    req3                  \* part_003: the request its handler is serving

vars == <<failureRate, failureTransferRate, failWithPrefix, data, m, req, started,
          passed, caller, calls, added, ticker, out, sf, setCall, failWithPrefixS,
          req2, req3>>

cfgVars == <<failureRate, failureTransferRate, failWithPrefix>>
mcVars == <<data, m>>
envVars == <<caller, calls, added, ticker, out>>
pureVars == <<sf, setCall>>
oldVars == <<failWithPrefixS, req2, req3>>
\* what part_001's handlers leave alone, the counters apart
h1Rest == <<cfgVars, envVars, pureVars, oldVars>>
\* what the callers of counters.go leave alone, the counters apart
mcRest == <<cfgVars, req, started, passed, pureVars, oldVars>>

(***************************************************************************)
(* Bounds of the model.                                                    *)
(***************************************************************************)
MaxRequests == 2      \* inbound requests over the life of the process
MaxChunks == 2        \* chunks an upstream body delivers before it ends
MaxAdds == 3          \* calls of MethodCounters.Add in SpecCounters
MaxLen == 6           \* length of the string given to FailingPrefixCode.Set
MaxArg == 3           \* length of a -fail-with-prefix value in SpecFlags
MaxSets == 2          \* occurrences of -fail-with-prefix on the command line

\* client connections; net/http serves each in a goroutine of its own, one
\* request after the other
Conns == {1, 2}

(***************************************************************************)
(* Strings.                                                                *)
(***************************************************************************)
\* strings.HasPrefix(s, prefix)
HasPrefix(s, prefix) ==
    /\ Len(prefix) <= Len(s)
    /\ SubSeq(s, 1, Len(prefix)) = prefix

(***************************************************************************)
(* Inputs.                                                                 *)
(***************************************************************************)
Methods == {"GET", "POST"}

PathBlock == <<"/", "b", "/", "x">>
PathOk == <<"/", "o", "k">>
Paths == {PathBlock, PathOk}
\* the inbound requests: method and URL path
Inbound == {<<"GET", PathOk>>, <<"POST", PathOk>>, <<"GET", PathBlock>>}

PrefixB == <<"/", "b">>
PrefixBX == <<"/", "b", "/">>

EmptyTable == [k \in {} |-> 0]
\* the tables -fail-with-prefix is given: none, one prefix, two overlapping ones
PrefixTables ==
    { EmptyTable,
      [k \in {PrefixB} |-> 403],
      [k \in {PrefixB, PrefixBX} |-> IF k = PrefixB THEN 403 ELSE 400] }

\* values of an integer flag (flag.IntVar takes any int)
FlagRates == {-1, 0, 50, 100, 150}
\* part_001:123, part_003:109: failureRate < 0 || failureRate > 100 is fatal
BadFailureRate(r) == r < 0 \/ r > 100
\* percentages main accepts (part_001:123)
Rates == {0, 50, 100}
\* part_001:119: -failure-transfer-rate, which main checks nothing about
\* (a negative rate takes the same branch of shouldFail as 150 does)
TransferRates == {r \in FlagRates : r >= 0}
\* values of mathrand.Intn(100) on both sides of every rate
Draws == {0, 49, 50, 99}
\* status codes of the upstream's responses
UpstreamCodes == {200, 404}

StatusInternalServerError == 500
StatusOK == 200

(***************************************************************************)
(* part_001: the failure decisions.                                        *)
(***************************************************************************)
\* shouldFail(fRate) with d the value of mathrand.Intn(100).
\* Line 167 compares the draw with the global failureRate, not with fRate.
shouldFail(fRate, d) ==
    IF fRate = 0 THEN FALSE
    ELSE IF fRate = 100 THEN TRUE
    ELSE d < failureRate

\* shouldFailByPrefix comparing the whole path with the prefix
shouldFailByPrefixWholePath(path) ==
    IF path \in DOMAIN failWithPrefix
    THEN {<<failWithPrefix[path], TRUE>>}
    ELSE {<<0, FALSE>>}

\* shouldFailByPrefix returning, on a match, the code of any entry of the table
shouldFailByPrefixAnyEntry(path) ==
    LET matching == {k \in DOMAIN failWithPrefix : HasPrefix(path, k)}
    IN  IF matching = {}
        THEN {<<0, FALSE>>}
        ELSE {<<failWithPrefix[k], TRUE>> : k \in DOMAIN failWithPrefix}

\* shouldFailByPrefix(path): the results the range over the map can give.
\* Go iterates a map in an unspecified order and the first match returns.
shouldFailByPrefix(path) ==
    LET matching == {k \in DOMAIN failWithPrefix : HasPrefix(path, k)}
    IN  IF matching = {}
        THEN {<<0, FALSE>>}
        ELSE {<<failWithPrefix[k], TRUE>> : k \in matching}

(***************************************************************************)
(* counters.go: MethodCounters.                                            *)
(***************************************************************************)
\* NewMethodCounters
NewMethodCounters == [k \in {} |-> 0]

\* mc.data[method]: a missing key reads as the zero value
Get(method) == IF method \in DOMAIN data THEN data[method] ELSE 0

\* mc.data[method] = v
Put(method, v) == [k \in DOMAIN data \cup {method} |-> IF k = method THEN v ELSE data[k]]

\* a mutex that excludes nobody
CanLockAlways == TRUE

\* mc.m.Lock() can return
CanLock == m = FALSE

(***************************************************************************)
(* part_001: mainHandler, one goroutine per request.                       *)
(***************************************************************************)
NoRequest ==
    [pc |-> "idle", method |-> "", path |-> <<>>, hdr |-> <<>>, sent |-> 0,
     old |-> 0, adds |-> 0, built |-> FALSE, upErr |-> "", doCalls |-> 0, resp |-> 0,
     errorTransfer |-> FALSE, cause |-> "", level |-> "", st |-> "",
     readn |-> 0, rcvd |-> <<>>, checks |-> 0]

Set1(i, r) == req' = [req EXCEPT ![i] = r]

\* the server hands the connection's next request to mainHandler
Arrive(i) ==
    /\ req[i].pc \in {"idle", "done"}
    /\ started < MaxRequests
    /\ started' = started + 1
    /\ \E r \in Inbound :
         Set1(i, [NoRequest EXCEPT !.pc = "global", !.method = r[1], !.path = r[2]])
    /\ UNCHANGED <<h1Rest, data, m, passed>>

\* the global gate with the counter updated before it instead of after the gates
GlobalGateCounted(i) ==
    /\ req[i].pc = "global"
    /\ \E d \in Draws :
         IF shouldFail(failureRate, d)
         THEN /\ Set1(i, [req[i] EXCEPT !.pc = "done", !.adds = @ + 1,
                             !.hdr = Append(@, StatusInternalServerError),
                             !.st = "FAILED_GLOBAL"])
              /\ data' = Put(req[i].method, Get(req[i].method) + 1)
         ELSE /\ Set1(i, [req[i] EXCEPT !.pc = "prefix"])
              /\ data' = data
    /\ UNCHANGED <<h1Rest, m, started, passed>>

\* the global gate without the return of line 35
GlobalGateNoReturn(i) ==
    /\ req[i].pc = "global"
    /\ \E d \in Draws :
         IF shouldFail(failureRate, d)
         THEN Set1(i, [req[i] EXCEPT !.pc = "prefix",
                          !.hdr = Append(@, StatusInternalServerError)])
         ELSE Set1(i, [req[i] EXCEPT !.pc = "prefix"])
    /\ UNCHANGED <<h1Rest, data, m, started, passed>>

\* lines 32-36
GlobalGate(i) ==
    /\ req[i].pc = "global"
    /\ \E d \in Draws :
         IF shouldFail(failureRate, d)
         THEN Set1(i, [req[i] EXCEPT !.pc = "done",
                          !.hdr = Append(@, StatusInternalServerError),
                          !.st = "FAILED_GLOBAL"])
         ELSE Set1(i, [req[i] EXCEPT !.pc = "prefix"])
    /\ UNCHANGED <<h1Rest, data, m, started, passed>>

\* lines 38-43
PrefixGate(i) ==
    /\ req[i].pc = "prefix"
    /\ \E res \in shouldFailByPrefix(req[i].path) :
         IF res[2]
         THEN /\ Set1(i, [req[i] EXCEPT !.pc = "done",
                             !.hdr = Append(@, res[1]),
                             !.st = "FAILED_PREFIX"])
              /\ UNCHANGED passed
         ELSE /\ Set1(i, [req[i] EXCEPT !.pc = "add"])
              /\ passed' = [passed EXCEPT ![req[i].method] = @ + 1]
    /\ UNCHANGED <<h1Rest, data, m, started>>

\* line 48 calling counters.go:22  mc.m.Lock()
AddLock(i) ==
    /\ req[i].pc = "add"
    /\ CanLock
    /\ m' = TRUE
    /\ Set1(i, [req[i] EXCEPT !.pc = "addRead"])
    /\ UNCHANGED <<h1Rest, data, started, passed>>

\* counters.go:24  old := mc.data[method]
AddRead(i) ==
    /\ req[i].pc = "addRead"
    /\ Set1(i, [req[i] EXCEPT !.pc = "addWrite", !.old = Get(req[i].method)])
    /\ UNCHANGED <<h1Rest, data, m, started, passed>>

\* counters.go:25 mc.data[method] = old + v, then the deferred Unlock of line 23
AddWrite(i) ==
    /\ req[i].pc = "addWrite"
    /\ data' = Put(req[i].method, req[i].old + 1)
    /\ m' = FALSE
    /\ Set1(i, [req[i] EXCEPT !.pc = "build", !.old = 0, !.adds = @ + 1])
    /\ UNCHANGED <<h1Rest, started, passed>>

\* lines 50-62: http.NewRequestWithContext and the forwarded headers
Build(i) ==
    /\ req[i].pc = "build"
    /\ \E err \in BOOLEAN :
         IF err
         THEN Set1(i, [req[i] EXCEPT !.pc = "done", !.upErr = "build",
                          !.hdr = Append(@, StatusInternalServerError),
                          !.st = "UPSTREAM_REQUEST_ERROR"])
         ELSE Set1(i, [req[i] EXCEPT !.pc = "do", !.built = TRUE])
    /\ UNCHANGED <<h1Rest, data, m, started, passed>>

\* Do issued a second time when the first call failed
DoRetried(i) ==
    /\ req[i].pc = "do"
    /\ \/ IF req[i].doCalls = 0
          THEN Set1(i, [req[i] EXCEPT !.doCalls = @ + 1])
          ELSE Set1(i, [req[i] EXCEPT !.pc = "done", !.doCalls = @ + 1, !.upErr = "do",
                           !.hdr = Append(@, StatusInternalServerError),
                           !.st = "UPSTREAM_REQUEST_ERROR"])
       \/ \E code \in UpstreamCodes :
            Set1(i, [req[i] EXCEPT !.pc = "stream", !.doCalls = @ + 1,
                        !.resp = code, !.hdr = Append(@, code)])
    /\ UNCHANGED <<h1Rest, data, m, started, passed>>

\* lines 65-79: http.DefaultClient.Do, then the response's headers and status
Do(i) ==
    /\ req[i].pc = "do"
    /\ \/ Set1(i, [req[i] EXCEPT !.pc = "done", !.doCalls = @ + 1, !.upErr = "do",
                      !.hdr = Append(@, StatusInternalServerError),
                      !.st = "UPSTREAM_REQUEST_ERROR"])
       \/ \E code \in UpstreamCodes :
            Set1(i, [req[i] EXCEPT !.pc = "stream", !.doCalls = @ + 1,
                        !.resp = code, !.hdr = Append(@, code)])
    /\ UNCHANGED <<h1Rest, data, m, started, passed>>

\* lines 101-111: the completion log line, with the error-transfer field and
\* the level, and the return
Completed(r, why, errorTransfer) ==
    [r EXCEPT !.pc = "done", !.errorTransfer = errorTransfer, !.cause = why,
              !.level = IF r.resp = StatusOK /\ ~errorTransfer THEN "info" ELSE "warn",
              !.st = IF errorTransfer THEN "COMPLETED_WITH_TRANSFER_ERROR"
                     ELSE "COMPLETED_OK"]

\* what resp.Body.Read can return: n > 0 bytes or none, with no error, with
\* io.EOF or with another error (a Read of no byte and no error is left out)
Reads == {<<1, "nil">>, <<1, "EOF">>, <<0, "EOF">>, <<1, "err">>, <<0, "err">>}

\* line 85 writing the chunk a second time
ClientWriteTwice(rcvd, chunk, errW) ==
    IF errW \/ chunk = 0 THEN rcvd ELSE Append(Append(rcvd, chunk), chunk)

\* line 85: w.Write(buf[0:n]).  rcvd is what the client has received, as
\* the numbers of the upstream body's chunks; chunk is the chunk in buf (0 when
\* n = 0); a write that fails delivers nothing of it.
ClientWrite(rcvd, chunk, errW) ==
    IF errW \/ chunk = 0 THEN rcvd ELSE Append(rcvd, chunk)

\* the loop asking shouldFail before it writes the chunk
LoopTurnCheckFirst(r0, rd, errW, d) ==
    LET chunk == IF rd[1] > 0 THEN r0.readn + 1 ELSE 0
        rc == [r0 EXCEPT !.readn = @ + rd[1], !.checks = @ + 1]
        r == [rc EXCEPT !.sent = IF errW THEN @ ELSE @ + rd[1],
                        !.rcvd = ClientWrite(@, chunk, errW)]
    IN  IF shouldFail(failureTransferRate, d) THEN Completed(rc, "inject", TRUE)
        ELSE IF errW THEN Completed(r, "write", TRUE)
        ELSE IF rd[2] # "nil"
             THEN Completed(r, IF rd[2] = "EOF" THEN "eof" ELSE "read", TRUE)
        ELSE r

\* lines 84-98: one turn of the copy loop on the request r0.  rd is what
\* resp.Body.Read returned (line 84), errW whether w.Write failed (line 85), d
\* the draw of the transfer-abort check, which line 94 reaches only when
\* neither the write nor the read gave an error.
\* Line 90 takes io.EOF as it takes any other error: errorTransfer = true.
LoopTurn(r0, rd, errW, d) ==
    LET chunk == IF rd[1] > 0 THEN r0.readn + 1 ELSE 0
        r == [r0 EXCEPT !.readn = @ + rd[1],
                        !.sent = IF errW THEN @ ELSE @ + rd[1],
                        !.rcvd = ClientWrite(@, chunk, errW)]
        rc == [r EXCEPT !.checks = @ + 1]
    IN  IF errW THEN Completed(r, "write", TRUE)
        ELSE IF rd[2] # "nil"
             THEN Completed(r, IF rd[2] = "EOF" THEN "eof" ELSE "read", TRUE)
        ELSE IF shouldFail(failureTransferRate, d)
             THEN Completed(rc, "inject", TRUE)
        ELSE rc

\* line 94 is reached, and mathrand.Intn called, only in a turn whose write
\* and read gave no error; in the other turns there is no draw (0 stands for it)
DrawsAt(rd, errW) == IF errW \/ rd[2] # "nil" THEN {0} ELSE Draws

\* lines 83-99: the copy loop, turn by turn
StreamChunk(i) ==
    /\ req[i].pc = "stream"
    /\ \E rd \in Reads, errW \in BOOLEAN :
         /\ rd[1] > 0 => req[i].sent < MaxChunks
         /\ \E d \in DrawsAt(rd, errW) : Set1(i, LoopTurn(req[i], rd, errW, d))
    /\ UNCHANGED <<h1Rest, data, m, started, passed>>

mainHandler(i) ==
    \/ GlobalGate(i)
    \/ PrefixGate(i)
    \/ AddLock(i)
    \/ AddRead(i)
    \/ AddWrite(i)
    \/ Build(i)
    \/ Do(i)
    \/ StreamChunk(i)

(***************************************************************************)
(* counters.go under its callers: goroutines that call Add(method, v),     *)
(* and part_001's printCounters, which calls PrintCounters on every tick.  *)
(***************************************************************************)
Callers == {1, 2}
Deltas == {1, 2}

Idle == [pc |-> "idle", method |-> "", v |-> 0, old |-> 0]

\* a goroutine calls mc.Add(method, v)
Call(c) ==
    /\ caller[c].pc = "idle"
    /\ calls < MaxAdds
    /\ calls' = calls + 1
    /\ \E meth \in Methods, v \in Deltas :
         /\ caller' = [caller EXCEPT ![c] = [pc |-> "lock", method |-> meth, v |-> v, old |-> 0]]
         /\ added' = [added EXCEPT ![meth] = @ + v]
    /\ UNCHANGED <<mcRest, data, m, ticker, out>>

\* counters.go:22  mc.m.Lock()
Lock(c) ==
    /\ caller[c].pc = "lock"
    /\ CanLock
    /\ m' = TRUE
    /\ caller' = [caller EXCEPT ![c].pc = "read"]
    /\ UNCHANGED <<mcRest, data, calls, added, ticker, out>>

\* counters.go:24  old := mc.data[method]
Read(c) ==
    /\ caller[c].pc = "read"
    /\ caller' = [caller EXCEPT ![c].pc = "write", ![c].old = Get(caller[c].method)]
    /\ UNCHANGED <<mcRest, data, m, calls, added, ticker, out>>

\* counters.go:25  mc.data[method] = old + v, then the deferred Unlock of line 23
Write(c) ==
    /\ caller[c].pc = "write"
    /\ data' = Put(caller[c].method, caller[c].old + caller[c].v)
    /\ m' = FALSE
    /\ caller' = [caller EXCEPT ![c] = Idle]
    /\ UNCHANGED <<mcRest, calls, added, ticker, out>>

Add(c) == Lock(c) \/ Read(c) \/ Write(c)

\* PrintCounters reading the map without waiting for the mutex
PrintLockNoWait ==
    /\ ticker = "wait"
    /\ m' = TRUE
    /\ ticker' = "print"
    /\ UNCHANGED <<mcRest, data, caller, calls, added, out>>

\* part_001:149-152 the ticker fires; counters.go:29 mc.m.Lock()
PrintLock ==
    /\ ticker = "wait"
    /\ CanLock
    /\ m' = TRUE
    /\ ticker' = "print"
    /\ UNCHANGED <<mcRest, data, caller, calls, added, out>>

\* counters.go:32-40: nothing when the map is empty, else every entry;
\* then the deferred Unlock of line 30
PrintCounters ==
    /\ ticker = "print"
    /\ out' = IF DOMAIN data = {} THEN out ELSE data
    /\ m' = FALSE
    /\ ticker' = "wait"
    /\ UNCHANGED <<mcRest, data, caller, calls, added>>

(***************************************************************************)
(* part_001: shouldFail at its two call sites, for every rate and draw.     *)
(***************************************************************************)
NoCall == [pc |-> "idle", fRate |-> 0, d |-> 0, res |-> FALSE]

\* percentages 0..100 and the values of mathrand.Intn(100)
Percents == 0..100
Intn100 == 0..99

\* line 32: shouldFail(failureRate)
CallGlobal ==
    /\ sf.pc = "idle"
    /\ \E d \in Intn100 :
         sf' = [pc |-> "global", fRate |-> failureRate, d |-> d,
                res |-> shouldFail(failureRate, d)]
    /\ UNCHANGED <<cfgVars, mcVars, req, started, passed, envVars, setCall, oldVars>>

\* line 94: shouldFail(failureTransferRate)
CallTransfer ==
    /\ sf.pc = "idle"
    /\ \E d \in Intn100 :
         sf' = [pc |-> "transfer", fRate |-> failureTransferRate, d |-> d,
                res |-> shouldFail(failureTransferRate, d)]
    /\ UNCHANGED <<cfgVars, mcVars, req, started, passed, envVars, setCall, oldVars>>

(***************************************************************************)
(* part_001: shouldFailByPrefix for every table and path.                  *)
(***************************************************************************)
\* prefixes of a table: the empty one (Set takes ":400"), one that every
\* path starts with, overlapping ones, one that is longer than its path
MatchKeys == {<<>>, <<"/">>, PrefixB, PrefixBX, <<"/", "o", "k", "/">>}
MatchCodes == {400, 403}
MatchTables == UNION {[ks -> MatchCodes] : ks \in SUBSET MatchKeys}
\* r.URL.Path
MatchPaths == Paths \cup {<<>>, <<"/">>, PrefixB}

NoMatchCall == [pc |-> "call", path |-> <<>>, code |-> 0, matched |-> FALSE]

\* line 38: code, match := shouldFailByPrefix(r.URL.Path)
CallMatch ==
    /\ sf.pc = "call"
    /\ \E res \in shouldFailByPrefix(sf.path) :
         sf' = [sf EXCEPT !.pc = "returned", !.code = res[1], !.matched = res[2]]
    /\ UNCHANGED <<cfgVars, mcVars, req, started, passed, envVars, setCall, oldVars>>

(***************************************************************************)
(* part_000: FailingPrefixCode.                                            *)
(***************************************************************************)
NoSet == [pc |-> "idle", x |-> <<>>, err |-> ""]

\* the characters of the inputs: a letter, the two separators, a digit, a sign
Alphabet == {"a", ":", ";", "1", "-"}
Inputs == UNION {[1..n -> Alphabet] : n \in 0..MaxLen}

\* the table Set is called on: the flag's zero value, or an earlier value
OldTable == [k \in {<<"a">>} |-> 7]
Receivers == {EmptyTable, OldTable}

\* the index of the first sep in s, 0 when there is none
Index(s, sep) ==
    IF \E i \in 1..Len(s) : s[i] = sep
    THEN CHOOSE i \in 1..Len(s) : s[i] = sep /\ \A j \in 1..(i - 1) : s[j] # sep
    ELSE 0

\* strings.Split(s, sep) for a one-character sep: the pieces between the
\* separators, one piece (s itself) when there is none
RECURSIVE Split(_, _)
Split(s, sep) ==
    LET i == Index(s, sep)
    IN  IF i = 0 THEN <<s>>
        ELSE <<SubSeq(s, 1, i - 1)>> \o Split(SubSeq(s, i + 1, Len(s)), sep)

DigitValue(c) ==
    CASE c = "0" -> 0 [] c = "1" -> 1 [] c = "2" -> 2 [] c = "3" -> 3 [] c = "4" -> 4
      [] c = "5" -> 5 [] c = "6" -> 6 [] c = "7" -> 7 [] c = "8" -> 8 [] c = "9" -> 9
      [] OTHER -> -1

\* the value of a string of decimal digits, -1 when a character is no digit
RECURSIVE Digits(_, _)
Digits(s, acc) ==
    IF s = <<>> THEN acc
    ELSE IF DigitValue(Head(s)) < 0 THEN -1
    ELSE Digits(Tail(s), 10 * acc + DigitValue(Head(s)))

\* strconv.Atoi(s): an optional sign and at least one decimal digit.  (The
\* range error needs more digits than an input of the model holds.)
Atoi(s) ==
    LET signed == s # <<>> /\ Head(s) \in {"+", "-"}
        body == IF signed THEN Tail(s) ELSE s
        n == Digits(body, 0)
    IN  IF body = <<>> \/ n < 0 THEN [err |-> TRUE, n |-> 0]
        ELSE [err |-> FALSE, n |-> IF signed /\ Head(s) = "-" THEN 0 - n ELSE n]

\* line 32: len(pair) != 2
BadPairTooShort(pair) == Len(pair) < 2

BadPair(pair) == Len(pair) # 2

\* m[pair[0]] = code
Store(tbl, k, code) ==
    [p \in DOMAIN tbl \cup {k} |-> IF p = k THEN code ELSE tbl[p]]

\* lines 30-40: the loop over the entries, from entry i on, filling tbl
RECURSIVE SetLoop(_, _, _)
SetLoop(tks, i, tbl) ==
    IF i > Len(tks) THEN [err |-> "", m |-> tbl]
    ELSE LET pair == Split(tks[i], ":")
         IN  IF BadPair(pair) THEN [err |-> "decoding", m |-> tbl]
             ELSE LET code == Atoi(pair[2])
                  IN  IF code.err THEN [err |-> "cannot convert", m |-> tbl]
                      ELSE SetLoop(tks, i + 1, Store(tbl, pair[1], code.n))

\* lines 22-44: (fp *FailingPrefixCode) Set(x): the error and the table after
\* the call.  The empty string and an error leave the table as it was.
Set(fp, x) ==
    IF x = <<>> THEN [err |-> "", fp |-> fp]
    ELSE LET r == SetLoop(Split(x, ";"), 1, EmptyTable)
         IN  IF r.err # "" THEN [err |-> r.err, fp |-> fp]
             ELSE [err |-> "", fp |-> r.m]

\* flag.Parse calls failWithPrefix.Set(x)
CallSet ==
    /\ setCall.pc = "call"
    /\ LET r == Set(failWithPrefix, setCall.x)
       IN  /\ failWithPrefix' = r.fp
           /\ setCall' = [setCall EXCEPT !.pc = "done", !.err = r.err]
    /\ UNCHANGED <<failureRate, failureTransferRate, mcVars, req, started, passed,
                   envVars, sf, oldVars>>


\* the values of -fail-with-prefix on a command line that repeats the flag
Args == {x \in Inputs : Len(x) <= MaxArg}

\* no occurrence of the flag seen yet
NoFlag == [pc |-> "flags", x |-> <<>>, err |-> "", n |-> 0]

\* part_001:120-121: flag.Parse calls failWithPrefix.Set(x) once for every
\* occurrence of -fail-with-prefix, in order, and exits at the first error
FlagSet ==
    /\ setCall.pc = "flags"
    /\ setCall.err = ""
    /\ setCall.n < MaxSets
    /\ \E x \in Args :
         LET r == Set(failWithPrefix, x)
         IN  /\ failWithPrefix' = r.fp
             /\ setCall' = [setCall EXCEPT !.x = x, !.err = r.err, !.n = @ + 1]
    /\ UNCHANGED <<failureRate, failureTransferRate, mcVars, req, started, passed,
                   envVars, sf, oldVars>>

\* fmt.Sprintf("%d", n) for n >= 0
RECURSIVE ItoaNat(_)
ItoaNat(n) ==
    LET c == <<"0", "1", "2", "3", "4", "5", "6", "7", "8", "9">>[(n % 10) + 1]
    IN  IF n < 10 THEN <<c>> ELSE ItoaNat(n \div 10) \o <<c>>

\* %d without the sign
ItoaUnsigned(n) == IF n < 0 THEN ItoaNat(0 - n) ELSE ItoaNat(n)

\* line 16: the %d of fmt.Sprintf("%s:%d", k, v)
Itoa(n) == IF n < 0 THEN <<"-">> \o ItoaNat(0 - n) ELSE ItoaNat(n)

\* strings.Join(rs, sep)
RECURSIVE Join(_, _)
Join(rs, sep) ==
    IF rs = <<>> THEN <<>>
    ELSE IF Len(rs) = 1 THEN rs[1]
    ELSE rs[1] \o sep \o Join(Tail(rs), sep)

\* the orders in which range can visit the keys of a map
Orders(keys) ==
    {p \in [1..Cardinality(keys) -> keys] :
        \A i, j \in 1..Cardinality(keys) : p[i] = p[j] => i = j}

\* lines 13-20: (fp FailingPrefixCode) String(): the strings it can return,
\* one for every order of the range of line 15
String(fp) ==
    {Join([i \in 1..Len(p) |-> p[i] \o <<":">> \o Itoa(fp[p[i]])], <<";">>) :
        p \in Orders(DOMAIN fp)}

\* Set(x) on a table that was never set
Parse ==
    /\ setCall.pc = "parse"
    /\ LET r == Set(failWithPrefix, setCall.x)
       IN  /\ failWithPrefix' = r.fp
           /\ setCall' = [setCall EXCEPT !.pc = IF r.err = "" THEN "string" ELSE "rejected",
                                         !.err = r.err]
    /\ UNCHANGED <<failureRate, failureTransferRate, mcVars, req, started, passed,
                   envVars, sf, oldVars>>

\* the table is written out: String()
Serialize ==
    /\ setCall.pc = "string"
    /\ \E str \in String(failWithPrefix) :
         setCall' = [setCall EXCEPT !.pc = "again", !.s = str]
    /\ UNCHANGED <<cfgVars, mcVars, req, started, passed, envVars, sf, oldVars>>

\* Set(T.String()), on a table that was never set or on the table T itself
ParseAgain ==
    /\ setCall.pc = "again"
    /\ \E recv \in {EmptyTable, failWithPrefix} :
         LET r == Set(recv, setCall.s)
         IN  setCall' = [setCall EXCEPT !.pc = "done", !.back = r.fp, !.err2 = r.err]
    /\ UNCHANGED <<cfgVars, mcVars, req, started, passed, envVars, sf, oldVars>>

(***************************************************************************)
(* part_002: the first variant.  No counters, no transfer rate; the prefix *)
(* is one string and a prefix failure is a 500.                            *)
(***************************************************************************)
NoRequest2 ==
    [pc |-> "idle", method |-> "", path |-> <<>>, hdr |-> <<>>, sent |-> 0,
     upErr |-> "", doCalls |-> 0, resp |-> 0, closed |-> FALSE, nilDeref |-> FALSE,
     st |-> ""]

\* the values of -fail-with-prefix
PrefixStrings == {<<>>, PrefixB}
\* values of 100 * mathrand.NormFloat64(), on both sides of every rate
NormDraws == {-100, 0, 49, 50, 300}
\* status codes of a response that Do returns together with an error: the
\* redirect at which CheckRedirect gave up
RedirectCodes == {302}

\* lines 103-113; z is 100 * NormFloat64(), so that
\* NormFloat64() < float64(failureRate) / 100.0 is z < failureRate
shouldFail002(z) ==
    IF failureRate = 0 THEN FALSE
    ELSE IF failureRate = 100 THEN TRUE
    ELSE z < failureRate

\* lines 117-123
shouldFailByPrefix002(path) ==
    IF failWithPrefixS = <<>> THEN FALSE
    ELSE HasPrefix(path, failWithPrefixS)

h2Rest == <<cfgVars, mcVars, req, passed, envVars, pureVars, failWithPrefixS, req3>>

Arrive002 ==
    /\ req2.pc \in {"idle", "done"}
    /\ started < MaxRequests
    /\ started' = started + 1
    /\ \E r \in Inbound :
         req2' = [NoRequest2 EXCEPT !.pc = "global", !.method = r[1], !.path = r[2]]
    /\ UNCHANGED h2Rest

\* lines 27-31
GlobalGate002 ==
    /\ req2.pc = "global"
    /\ \E z \in NormDraws :
         IF shouldFail002(z)
         THEN req2' = [req2 EXCEPT !.pc = "done",
                          !.hdr = Append(@, StatusInternalServerError),
                          !.st = "FAILED_GLOBAL"]
         ELSE req2' = [req2 EXCEPT !.pc = "prefix"]
    /\ UNCHANGED <<h2Rest, started>>

\* lines 33-37
PrefixGate002 ==
    /\ req2.pc = "prefix"
    /\ IF shouldFailByPrefix002(req2.path)
       THEN req2' = [req2 EXCEPT !.pc = "done",
                        !.hdr = Append(@, StatusInternalServerError),
                        !.st = "FAILED_PREFIX"]
       ELSE req2' = [req2 EXCEPT !.pc = "build"]
    /\ UNCHANGED <<h2Rest, started>>

\* lines 39-55
Build002 ==
    /\ req2.pc = "build"
    /\ \E err \in BOOLEAN :
         IF err
         THEN req2' = [req2 EXCEPT !.pc = "done", !.upErr = "build",
                          !.hdr = Append(@, StatusInternalServerError),
                          !.st = "UPSTREAM_REQUEST_ERROR"]
         ELSE req2' = [req2 EXCEPT !.pc = "do"]
    /\ UNCHANGED <<h2Rest, started>>

\* lines 58-65.  When Do fails, line 60 writes 500 and there is no return:
\* line 63 reads resp.Body.  Do returns a nil response with an error, and
\* then line 63 panics (net/http recovers and drops the connection); or, when
\* CheckRedirect gave up, the last redirect response with its body closed,
\* and then line 65 writes a second status and the copy loop is entered.
Do002 ==
    /\ req2.pc = "do"
    /\ \/ \E code \in UpstreamCodes :
            req2' = [req2 EXCEPT !.pc = "stream", !.doCalls = @ + 1, !.resp = code,
                        !.hdr = Append(@, code)]
       \/ req2' = [req2 EXCEPT !.pc = "done", !.doCalls = @ + 1, !.upErr = "do",
                      !.hdr = Append(@, StatusInternalServerError),
                      !.nilDeref = TRUE, !.st = "PANIC"]
       \/ \E code \in RedirectCodes :
            req2' = [req2 EXCEPT !.pc = "stream", !.doCalls = @ + 1, !.upErr = "do",
                        !.resp = code, !.closed = TRUE,
                        !.hdr = Append(Append(@, StatusInternalServerError), code)]
    /\ UNCHANGED <<h2Rest, started>>

\* lines 67-81: one turn of the copy loop; a break is followed by the log
\* line and the return.  A closed body only returns an error.
Stream002 ==
    /\ req2.pc = "stream"
    /\ \E rd \in Reads, errW \in BOOLEAN :
         /\ rd[1] > 0 => req2.sent < MaxChunks
         /\ req2.closed => rd = <<0, "err">>
         /\ LET r == [req2 EXCEPT !.sent = IF errW THEN @ ELSE @ + rd[1]]
            IN  IF errW \/ rd[2] # "nil"
                THEN req2' = [r EXCEPT !.pc = "done", !.st = "COMPLETED"]
                ELSE req2' = r
    /\ UNCHANGED <<h2Rest, started>>

mainHandler002 ==
    \/ GlobalGate002
    \/ PrefixGate002
    \/ Build002
    \/ Do002
    \/ Stream002

(***************************************************************************)
(* part_003: the body-buffering variant.  The inbound body is staged in a  *)
(* temporary file, which gives the upstream request its Content-Length.    *)
(***************************************************************************)
NoRequest3 ==
    [pc |-> "idle", method |-> "", path |-> <<>>, hdr |-> <<>>, sent |-> 0,
     upErr |-> "", doCalls |-> 0, resp |-> 0, st |-> "",
     stage |-> "", tmp |-> "none", removes |-> 0, rmLogged |-> FALSE]

\* os.Remove: the file is gone, or it stays and the error is returned
Remove == {"removed", "exists"}

\* lines 167-173: closeFn closes the file, removes it and logs a failed removal
closeFn == {[tmp |-> t, removes |-> 1, rmLogged |-> (t = "exists")] : t \in Remove}

\* storeBody returning on a failed Sync without closeFn
storeBodyLeavesFile ==
    {[stage |-> "temp", tmp |-> "none", removes |-> 0, rmLogged |-> FALSE]}
    \cup {[stage |-> f, tmp |-> c.tmp, removes |-> c.removes, rmLogged |-> c.rmLogged] :
             f \in {"copy", "seek"}, c \in closeFn}
    \cup {[stage |-> "sync", tmp |-> "exists", removes |-> 0, rmLogged |-> FALSE]}
    \cup {[stage |-> "ok", tmp |-> "exists", removes |-> 0, rmLogged |-> FALSE]}

\* lines 161-195: storeBody.  TempFile fails and there is no file; CopyBuffer,
\* Sync or Seek fails and closeFn runs; or the file is returned, rewound.
storeBody ==
    {[stage |-> "temp", tmp |-> "none", removes |-> 0, rmLogged |-> FALSE]}
    \cup {[stage |-> f, tmp |-> c.tmp, removes |-> c.removes, rmLogged |-> c.rmLogged] :
             f \in {"copy", "sync", "seek"}, c \in closeFn}
    \cup {[stage |-> "ok", tmp |-> "exists", removes |-> 0, rmLogged |-> FALSE]}

\* lines 126-135; d is mathrand.Intn(100)
shouldFail003(d) ==
    IF failureRate = 0 THEN FALSE
    ELSE IF failureRate = 100 THEN TRUE
    ELSE d < failureRate

\* lines 139-145
shouldFailByPrefix003(path) ==
    IF failWithPrefixS = <<>> THEN FALSE
    ELSE HasPrefix(path, failWithPrefixS)

h3Rest == <<cfgVars, mcVars, req, passed, envVars, pureVars, failWithPrefixS, req2>>

Arrive003 ==
    /\ req3.pc \in {"idle", "done"}
    /\ started < MaxRequests
    /\ started' = started + 1
    /\ \E r \in Inbound :
         req3' = [NoRequest3 EXCEPT !.pc = "global", !.method = r[1], !.path = r[2]]
    /\ UNCHANGED h3Rest

\* lines 30-34
GlobalGate003 ==
    /\ req3.pc = "global"
    /\ \E d \in Draws :
         IF shouldFail003(d)
         THEN req3' = [req3 EXCEPT !.pc = "done",
                          !.hdr = Append(@, StatusInternalServerError),
                          !.st = "FAILED_GLOBAL"]
         ELSE req3' = [req3 EXCEPT !.pc = "prefix"]
    /\ UNCHANGED <<h3Rest, started>>

\* lines 36-40
PrefixGate003 ==
    /\ req3.pc = "prefix"
    /\ IF shouldFailByPrefix003(req3.path)
       THEN req3' = [req3 EXCEPT !.pc = "done",
                        !.hdr = Append(@, StatusInternalServerError),
                        !.st = "FAILED_PREFIX"]
       ELSE req3' = [req3 EXCEPT !.pc = "store"]
    /\ UNCHANGED <<h3Rest, started>>

\* lines 44-55: storeBody; on an error 500 and the return, else the removal
\* of the file is deferred
StoreBody003 ==
    /\ req3.pc = "store"
    /\ \E o \in storeBody :
         LET r == [req3 EXCEPT !.stage = o.stage, !.tmp = o.tmp,
                               !.removes = o.removes, !.rmLogged = o.rmLogged]
         IN  IF o.stage # "ok"
             THEN req3' = [r EXCEPT !.pc = "done",
                              !.hdr = Append(@, StatusInternalServerError),
                              !.st = "STAGING_ERROR"]
             ELSE req3' = [r EXCEPT !.pc = "build"]
    /\ UNCHANGED <<h3Rest, started>>

\* lines 57-69
Build003 ==
    /\ req3.pc = "build"
    /\ \E err \in BOOLEAN :
         IF err
         THEN req3' = [req3 EXCEPT !.pc = "defer", !.upErr = "build",
                          !.hdr = Append(@, StatusInternalServerError),
                          !.st = "UPSTREAM_REQUEST_ERROR"]
         ELSE req3' = [req3 EXCEPT !.pc = "do"]
    /\ UNCHANGED <<h3Rest, started>>

\* lines 72-80
Do003 ==
    /\ req3.pc = "do"
    /\ \/ req3' = [req3 EXCEPT !.pc = "defer", !.doCalls = @ + 1, !.upErr = "do",
                      !.hdr = Append(@, StatusInternalServerError),
                      !.st = "UPSTREAM_REQUEST_ERROR"]
       \/ \E code \in UpstreamCodes :
            req3' = [req3 EXCEPT !.pc = "stream", !.doCalls = @ + 1, !.resp = code,
                        !.hdr = Append(@, code)]
    /\ UNCHANGED <<h3Rest, started>>

\* lines 82-98: one turn of the copy loop; a break is followed by the log
\* line and the return
Stream003 ==
    /\ req3.pc = "stream"
    /\ \E rd \in Reads, errW \in BOOLEAN :
         /\ rd[1] > 0 => req3.sent < MaxChunks
         /\ LET r == [req3 EXCEPT !.sent = IF errW THEN @ ELSE @ + rd[1]]
            IN  IF errW \/ rd[2] # "nil"
                THEN req3' = [r EXCEPT !.pc = "defer", !.st = "COMPLETED"]
                ELSE req3' = r
    /\ UNCHANGED <<h3Rest, started>>

\* lines 50-55, run when the handler returns: os.Remove(f.Name()), a failure
\* is logged
Deferred003 ==
    /\ req3.pc = "defer"
    /\ \E t \in Remove :
         req3' = [req3 EXCEPT !.pc = "done", !.tmp = t, !.removes = @ + 1,
                     !.rmLogged = (t = "exists")]
    /\ UNCHANGED <<h3Rest, started>>

mainHandler003 ==
    \/ GlobalGate003
    \/ PrefixGate003
    \/ StoreBody003
    \/ Build003
    \/ Do003
    \/ Stream003
    \/ Deferred003


(***************************************************************************)
(* part_001: main.                                                         *)
(***************************************************************************)
\* the state the other specifications leave alone
InitCounters ==
    /\ data = NewMethodCounters
    /\ m = FALSE
    /\ caller = [c \in Callers |-> Idle]
    /\ calls = 0
    /\ added = [k \in Methods |-> 0]
    /\ ticker = "wait"
    /\ out = NewMethodCounters

InitHandlers ==
    /\ req = [i \in Conns |-> NoRequest]
    /\ started = 0
    /\ passed = [k \in Methods |-> 0]

InitPure ==
    /\ sf = NoCall
    /\ setCall = NoSet

InitOld ==
    /\ failWithPrefixS = <<>>
    /\ req2 = NoRequest2
    /\ req3 = NoRequest3

\* lines 117-138: the flags are parsed, the rate is checked, the counters
\* are made and the server listens
Init ==
    /\ failureRate \in {r \in FlagRates : ~BadFailureRate(r)}
    /\ failureTransferRate \in TransferRates
    /\ failWithPrefix \in PrefixTables
    /\ InitCounters
    /\ InitHandlers
    /\ InitPure
    /\ InitOld

Next ==
    \/ \E i \in Conns : Arrive(i)
    \/ \E i \in Conns : mainHandler(i)

Spec == Init /\ [][Next]_vars

(***************************************************************************)
(* SpecCounters: NewMethodCounters, then Add from concurrent goroutines    *)
(* and PrintCounters from the ticker's goroutine.                          *)
(***************************************************************************)
InitMC ==
    /\ failureRate = 0
    /\ failureTransferRate = 0
    /\ failWithPrefix = EmptyTable
    /\ InitCounters
    /\ InitHandlers
    /\ InitPure
    /\ InitOld

NextMC ==
    \/ \E c \in Callers : Call(c)
    \/ \E c \in Callers : Add(c)
    \/ PrintLock
    \/ PrintCounters

SpecCounters == InitMC /\ [][NextMC]_vars

(***************************************************************************)
(* SpecFail: the flags are parsed (any transfer rate in 0..100) and        *)
(* shouldFail is called from the gate and from the copy loop.              *)
(***************************************************************************)
InitFail ==
    /\ failureRate \in Rates
    /\ failureTransferRate \in Percents
    /\ failWithPrefix = EmptyTable
    /\ InitCounters
    /\ InitHandlers
    /\ InitPure
    /\ InitOld

NextFail == CallGlobal \/ CallTransfer

SpecFail == InitFail /\ [][NextFail]_vars

(***************************************************************************)
(* Spec002: part_002's main (lines 84-98) and its handler.                 *)
(***************************************************************************)
\* main does not look at failureRate before it listens
Init002 ==
    /\ failureRate \in FlagRates
    /\ failureTransferRate = 0
    /\ failWithPrefix = EmptyTable
    /\ InitCounters
    /\ InitHandlers
    /\ InitPure
    /\ failWithPrefixS \in PrefixStrings
    /\ req2 = NoRequest2
    /\ req3 = NoRequest3

Next002 == Arrive002 \/ mainHandler002

Spec002 == Init002 /\ [][Next002]_vars

(***************************************************************************)
(* Spec003: part_003's main (lines 101-121) and its handler.               *)
(***************************************************************************)
Init003 ==
    /\ failureRate \in {r \in FlagRates : ~BadFailureRate(r)}
    /\ failureTransferRate = 0
    /\ failWithPrefix = EmptyTable
    /\ InitCounters
    /\ InitHandlers
    /\ InitPure
    /\ failWithPrefixS \in PrefixStrings
    /\ req2 = NoRequest2
    /\ req3 = NoRequest3

Next003 == Arrive003 \/ mainHandler003

Spec003 == Init003 /\ [][Next003]_vars

(***************************************************************************)
(* SpecSet: FailingPrefixCode.Set is called once, with any input string.   *)
(***************************************************************************)
InitSet ==
    /\ failureRate = 0
    /\ failureTransferRate = 0
    /\ failWithPrefix \in Receivers
    /\ InitCounters
    /\ InitHandlers
    /\ sf = NoCall
    /\ setCall \in {[pc |-> "call", x |-> x, err |-> ""] : x \in Inputs}
    /\ InitOld

NextSet == CallSet

SpecSet == InitSet /\ [][NextSet]_vars

(***************************************************************************)
(* SpecFlags: flag.Parse on a command line with up to MaxSets occurrences  *)
(* of -fail-with-prefix; the table starts as the zero value of the global. *)
(***************************************************************************)
InitFlags ==
    /\ failureRate = 0
    /\ failureTransferRate = 0
    /\ failWithPrefix = EmptyTable
    /\ InitCounters
    /\ InitHandlers
    /\ sf = NoCall
    /\ setCall = NoFlag
    /\ InitOld

NextFlags == FlagSet

SpecFlags == InitFlags /\ [][NextFlags]_vars

(***************************************************************************)
(* SpecRoundTrip: Set(x), then String(), then Set of what String returned. *)
(***************************************************************************)
InitRoundTrip ==
    /\ failureRate = 0
    /\ failureTransferRate = 0
    /\ failWithPrefix = EmptyTable
    /\ InitCounters
    /\ InitHandlers
    /\ sf = NoCall
    /\ setCall \in {[pc |-> "parse", x |-> x, err |-> "", s |-> <<>>,
                      back |-> EmptyTable, err2 |-> ""] : x \in Inputs}
    /\ InitOld

NextRoundTrip == Parse \/ Serialize \/ ParseAgain

SpecRoundTrip == InitRoundTrip /\ [][NextRoundTrip]_vars

(***************************************************************************)
(* SpecMatch: shouldFailByPrefix is called with any table and any path.    *)
(***************************************************************************)
InitMatch ==
    /\ failureRate = 0
    /\ failureTransferRate = 0
    /\ failWithPrefix \in MatchTables
    /\ InitCounters
    /\ InitHandlers
    /\ sf \in {[NoMatchCall EXCEPT !.path = p] : p \in MatchPaths}
    /\ setCall = NoSet
    /\ InitOld

NextMatch == CallMatch

SpecMatch == InitMatch /\ [][NextMatch]_vars

(***************************************************************************)
(* Properties of part_001's handlers (Spec).                               *)
(***************************************************************************)
Returned(i) == req[i].pc = "done"
Quiet == \A i \in Conns : req[i].pc \in {"idle", "done"}
GateFailed(i) == req[i].st \in {"FAILED_GLOBAL", "FAILED_PREFIX"}
\* a prefix of the table is a prefix of the path
Matches(path) == \E k \in DOMAIN failWithPrefix : HasPrefix(path, k)
\* no path of the model matches two prefixes of the table
NonOverlapping ==
    \A p \in Paths : Cardinality({k \in DOMAIN failWithPrefix : HasPrefix(p, k)}) <= 1

\* C1: a request calls MethodCounters.Add at most once; when its handler has
\* returned it has called it exactly once if it passed both gates (also when
\* building or issuing the upstream request failed) and never if a gate failed
\* it; and once all handlers have returned, the counter of each method is the
\* number of requests of that method that passed both gates.
C1_CountedOncePerPassedRequest ==
    /\ \A i \in Conns :
         /\ req[i].adds <= 1
         /\ Returned(i) => req[i].adds = (IF GateFailed(i) THEN 0 ELSE 1)
    /\ Quiet => \A k \in Methods : Get(k) = passed[k]

\* two requests of the same method were handled, both passed the gates, one of
\* them failed at the upstream call, and a third request failed at a gate
C1_Witness ==
    /\ Quiet
    /\ Get("GET") = 2
    /\ \E i \in Conns : req[i].st = "UPSTREAM_REQUEST_ERROR" /\ req[i].adds = 1

\* C2 (as claimed): a transfer that ends at io.EOF with every write succeeding
\* and no injected failure ends in COMPLETED_OK with the transfer-error flag
\* false, and the flag is true only after a failed write, a failed read or an
\* injected failure.
C2_EofIsNoTransferError ==
    \A i \in Conns :
        Returned(i) =>
            /\ req[i].cause = "eof" =>
                   (~req[i].errorTransfer /\ req[i].st = "COMPLETED_OK")
            /\ req[i].errorTransfer => req[i].cause \in {"write", "read", "inject"}

PrefixAnswer(i) ==
    /\ \E k \in DOMAIN failWithPrefix :
         HasPrefix(req[i].path, k) /\ req[i].hdr = <<failWithPrefix[k]>>
    /\ req[i].sent = 0 /\ req[i].doCalls = 0 /\ req[i].adds = 0
    /\ req[i].st = "FAILED_PREFIX"

\* C6 (as claimed): with failure-rate = 0 and non-overlapping prefixes, a
\* request whose path has a configured prefix gets that prefix's code, no
\* body, no upstream call and no count; any other request is counted exactly
\* once and forwarded upstream.
C6_ForwardedWhenNoPrefix ==
    (failureRate = 0 /\ NonOverlapping) =>
        \A i \in Conns :
            Returned(i) =>
                IF Matches(req[i].path)
                THEN PrefixAnswer(i)
                ELSE req[i].adds = 1 /\ req[i].doCalls = 1

\* C6 (amended): ... any other request is counted exactly once, and it is
\* forwarded upstream with exactly one call unless building the upstream
\* request fails; then it is answered 500 and no upstream call is made.
C6_ForwardedUnlessBuildFails ==
    (failureRate = 0 /\ NonOverlapping) =>
        \A i \in Conns :
            Returned(i) =>
                IF Matches(req[i].path)
                THEN PrefixAnswer(i)
                ELSE /\ req[i].adds = 1
                     /\ req[i].st # "FAILED_PREFIX"
                     /\ IF req[i].built
                        THEN req[i].doCalls = 1
                        ELSE /\ req[i].doCalls = 0
                             /\ req[i].hdr = <<StatusInternalServerError>>
                             /\ req[i].st = "UPSTREAM_REQUEST_ERROR"

\* with failure-rate = 0 and /b set to 403, a request to /b/x was answered 403
\* and a request to /ok was forwarded, streamed and counted
C6_Witness ==
    /\ failureRate = 0
    /\ failWithPrefix = [k \in {PrefixB} |-> 403]
    /\ \E i \in Conns :
         Returned(i) /\ req[i].path = PathBlock /\ req[i].hdr = <<403>>
    /\ \E i \in Conns :
         /\ Returned(i) /\ req[i].path = PathOk /\ req[i].doCalls = 1
         /\ req[i].sent > 0 /\ Get(req[i].method) = 1

(***************************************************************************)
(* Properties of the variants (Spec002, Spec003).                          *)
(***************************************************************************)
\* the status the handler is meant to write, by the way the request ended
Answer(r) ==
    IF r.st = "FAILED_GLOBAL" \/ r.upErr # "" THEN StatusInternalServerError
    ELSE r.resp

\* C4 (as claimed): in part_001 and in part_002, WriteHeader is called at most
\* once while a request is handled and exactly once when its handler is done:
\* with 500 when the global gate or the upstream request failed, with the
\* prefix gate's code when that failed, else with the upstream's status.
C4_WriteHeaderOnce ==
    /\ \A i \in Conns :
         /\ Len(req[i].hdr) <= 1
         /\ Returned(i) => Len(req[i].hdr) = 1
         /\ (Returned(i) /\ req[i].st # "FAILED_PREFIX") => req[i].hdr = <<Answer(req[i])>>
    /\ Len(req2.hdr) <= 1
    /\ req2.pc = "done" => Len(req2.hdr) = 1
    /\ (req2.pc = "done" /\ req2.st # "FAILED_PREFIX") => req2.hdr = <<Answer(req2)>>

\* C8 (as claimed): in every variant, once building or issuing the upstream
\* request has failed, the client has been sent 500 and nothing else, the
\* handler ends in UPSTREAM_REQUEST_ERROR, the copy loop is not entered and
\* the missing response is not read.
C8_UpstreamErrorIs500 ==
    /\ \A i \in Conns :
         req[i].upErr # "" =>
             /\ req[i].pc = "done" /\ req[i].st = "UPSTREAM_REQUEST_ERROR"
             /\ req[i].hdr = <<StatusInternalServerError>> /\ req[i].sent = 0
    /\ req2.upErr # "" =>
             /\ req2.pc = "done" /\ req2.st = "UPSTREAM_REQUEST_ERROR"
             /\ req2.hdr = <<StatusInternalServerError>> /\ req2.sent = 0
             /\ ~req2.nilDeref
    /\ req3.upErr # "" =>
             /\ req3.pc \in {"defer", "done"} /\ req3.st = "UPSTREAM_REQUEST_ERROR"
             /\ req3.hdr = <<StatusInternalServerError>> /\ req3.sent = 0

\* what is left of the temporary file when the handler is done
Cleaned(r) ==
    /\ r.removes = 1
    /\ \/ r.tmp = "removed" /\ ~r.rmLogged
       \/ r.tmp = "exists" /\ r.rmLogged

\* C9: in part_003, a handler that is done and had a temporary file created
\* has tried exactly once to remove it, and the file is gone or the failure is
\* logged; a failed copy, sync or rewind is answered 500 without an upstream
\* call; a staged file stays, untouched, until the handler returns; and the
\* status sent is the one the request's path gives, whether or not the
\* removal failed.
C9_TempFileRemoved ==
    /\ (req3.pc = "done" /\ req3.stage \in {"copy", "sync", "seek", "ok"}) => Cleaned(req3)
    /\ req3.stage \in {"", "temp"} => (req3.tmp = "none" /\ req3.removes = 0)
    /\ req3.stage \in {"temp", "copy", "sync", "seek"} =>
           /\ req3.pc = "done" /\ req3.st = "STAGING_ERROR"
           /\ req3.hdr = <<StatusInternalServerError>>
           /\ req3.doCalls = 0 /\ req3.sent = 0
    /\ (req3.stage = "ok" /\ req3.pc # "done") => (req3.tmp = "exists" /\ req3.removes = 0)
    /\ (req3.stage = "ok" /\ req3.pc \in {"defer", "done"}) =>
           /\ req3.hdr = <<Answer(req3)>>
           /\ req3.upErr = "build" => req3.doCalls = 0
           /\ req3.upErr # "build" => req3.doCalls = 1

\* the body was staged, the upstream call failed, the removal of the file
\* failed and was logged, and the client got its 500
C9_Witness ==
    /\ req3.pc = "done"
    /\ req3.stage = "ok" /\ req3.upErr = "do"
    /\ req3.tmp = "exists" /\ req3.rmLogged
    /\ req3.hdr = <<StatusInternalServerError>>

(***************************************************************************)
(* Properties of shouldFail (SpecFail).                                    *)
(***************************************************************************)
\* C3 (as claimed): shouldFail(p) is false for p = 0, true for p = 100 and
\* otherwise true exactly when the draw is below p, at both call sites and
\* whatever the other rate is.
C3_ShouldFailUsesItsArgument ==
    sf.pc # "idle" =>
        sf.res = (IF sf.fRate = 0 THEN FALSE
                  ELSE IF sf.fRate = 100 THEN TRUE
                  ELSE sf.d < sf.fRate)

(***************************************************************************)
(* Properties of FailingPrefixCode.Set (SpecSet).                          *)
(***************************************************************************)
\* the places of the separators of x, with the two ends
Bounds(x) == {0, Len(x) + 1} \cup {i \in 1..Len(x) : x[i] = ";"}
\* the entries of x: the places <<a, b>> of two separators next to each other
Entries(x) ==
    {e \in Bounds(x) \X Bounds(x) :
        e[1] < e[2] /\ ~\E c \in Bounds(x) : e[1] < c /\ c < e[2]}
Colons(x, e) == {i \in (e[1] + 1)..(e[2] - 1) : x[i] = ":"}
Colon(x, e) == CHOOSE i \in Colons(x, e) : TRUE
\* a decimal integer: an optional sign, then digits, at least one
IsInteger(t) ==
    LET from == IF t # <<>> /\ t[1] \in {"+", "-"} THEN 2 ELSE 1
    IN  /\ from <= Len(t)
        /\ \A i \in from..Len(t) : t[i] \in {"0", "1", "2", "3", "4", "5", "6", "7", "8", "9"}
\* its value, digit by digit from the right
RECURSIVE Pow10(_)
Pow10(n) == IF n = 0 THEN 1 ELSE 10 * Pow10(n - 1)
RECURSIVE SumDigits(_, _)
SumDigits(t, i) ==
    IF i > Len(t) THEN 0
    ELSE (IF t[i] \in {"+", "-"} THEN 0 ELSE DigitValue(t[i]) * Pow10(Len(t) - i))
         + SumDigits(t, i + 1)
Value(t) == IF t[1] = "-" THEN 0 - SumDigits(t, 1) ELSE SumDigits(t, 1)
\* an entry with exactly two fields, the second an integer
GoodEntry(x, e) ==
    /\ Cardinality(Colons(x, e)) = 1
    /\ IsInteger(SubSeq(x, Colon(x, e) + 1, e[2] - 1))
PrefixOf(x, e) == SubSeq(x, e[1] + 1, Colon(x, e) - 1)
CodeOf(x, e) == Value(SubSeq(x, Colon(x, e) + 1, e[2] - 1))

C17_KeysAreNonEmpty ==
    (setCall.pc = "done" /\ setCall.err = "" /\ setCall.x # <<>>) =>
        \A k \in DOMAIN failWithPrefix :
            /\ k # <<>>
            /\ \E path \in {<<>>, <<"/">>} \cup Paths : ~HasPrefix(path, k)

(***************************************************************************)
(* Properties of repeated Set calls (SpecFlags).                           *)
(***************************************************************************)
\* C11: after Set("") has returned, whatever Set calls came before it on the
\* same table, the call reported no error, the table holds no entry and
\* shouldFailByPrefix matches no path.
C11_EmptyStringEmptiesTable ==
    (setCall.pc = "flags" /\ setCall.n > 0 /\ setCall.x = <<>>) =>
        /\ setCall.err = ""
        /\ DOMAIN failWithPrefix = {}
        /\ \A path \in Paths : \A res \in shouldFailByPrefix(path) : ~res[2]

(***************************************************************************)
(* Properties of Set after String (SpecRoundTrip).                         *)
(***************************************************************************)
\* C12: for every input that Set accepts, giving the table T, Set applied to
\* T.String() succeeds and gives a table with the same prefix-to-code pairs
\* as T, in whatever order String() wrote the entries.
C12_RoundTrip ==
    setCall.pc = "done" =>
        /\ setCall.err2 = ""
        /\ setCall.back = failWithPrefix

\* "a:1;:1" was parsed, String() wrote the entries in the other order,
\* ":1;a:1", and that was parsed back
C12_Witness ==
    /\ setCall.pc = "done"
    /\ setCall.x = <<"a", ":", "1", ";", ":", "1">>
    /\ setCall.s = <<":", "1", ";", "a", ":", "1">>
    /\ DOMAIN setCall.back = {<<>>, <<"a">>}
    /\ setCall.back[<<"a">>] = 1

(***************************************************************************)
(* Properties of shouldFailByPrefix (SpecMatch).                           *)
(***************************************************************************)
\* k is a prefix of path, character by character
IsPrefixOf(k, path) ==
    /\ Len(k) <= Len(path)
    /\ \A i \in 1..Len(k) : path[i] = k[i]
MatchingKeys(path) == {k \in DOMAIN failWithPrefix : IsPrefixOf(k, path)}

\* C13: shouldFailByPrefix(path) returns matched = true exactly when some
\* configured prefix is a prefix of path, and then the code of one such prefix
\* (the one there is when the prefixes do not overlap); it returns (0, false)
\* when none matches, and always when the table is empty.
C13_MatchIsPrefixMatch ==
    sf.pc = "returned" =>
        /\ sf.matched <=> MatchingKeys(sf.path) # {}
        /\ sf.matched => \E k \in MatchingKeys(sf.path) : sf.code = failWithPrefix[k]
        /\ ~sf.matched => sf.code = 0
        /\ DOMAIN failWithPrefix = {} => ~sf.matched

\* the README's example: the table holds one prefix with 400 (and one that
\* the path does not start with), the path goes on after the prefix
C13_Witness ==
    /\ sf.pc = "returned"
    /\ DOMAIN failWithPrefix = {PrefixB, <<"/", "o", "k", "/">>}
    /\ failWithPrefix[PrefixB] = 400
    /\ failWithPrefix[<<"/", "o", "k", "/">>] = 403
    /\ sf.path = PathBlock
    /\ sf.matched
    /\ sf.code = 400

(***************************************************************************)
(* Properties of part_001's copy loop (Spec).                              *)
(***************************************************************************)
\* the request of connection i is replaced by the connection's next request
NextRequest(i) == req[i].pc = "done" /\ req'[i].pc = "global"

\* C15: for a forwarded request the upstream's status is written before any
\* body byte; the client has received the chunks in the order they were read,
\* each once, so a prefix of the upstream body; and once the status is sent
\* a transfer error ends the stream: the status is not written again and
\* after the turn of the loop that saw the error nothing more is written.
C15_StreamIsPrefixAfterStatus ==
    /\ [](\A i \in Conns :
            /\ \A j \in 1..Len(req[i].rcvd) : req[i].rcvd[j] = j
            /\ Len(req[i].rcvd) <= req[i].readn
            /\ req[i].rcvd # <<>> =>
                   /\ req[i].hdr = <<req[i].resp>>
                   /\ req[i].resp \in UpstreamCodes)
    /\ [][\A i \in Conns :
            /\ (req[i].pc = "stream" /\ req'[i] # req[i]) =>
                   /\ req'[i].hdr = req[i].hdr
                   /\ req'[i].rcvd \in {req[i].rcvd,
                                         Append(req[i].rcvd, req[i].readn + 1)}
                   /\ req'[i].cause \in {"write", "inject"} => req'[i].pc = "done"
            /\ (req[i].pc = "done" /\ ~NextRequest(i)) => req'[i] = req[i]]_vars

\* two chunks were streamed after a 404 and then the transfer was cut by an
\* injected failure
C15_Witness ==
    \E i \in Conns :
        /\ Returned(i)
        /\ req[i].hdr = <<404>>
        /\ req[i].rcvd = <<1, 2>>
        /\ req[i].cause = "inject"

Rank(pc) ==
    CASE pc = "idle" -> 0 [] pc = "global" -> 1 [] pc = "prefix" -> 2
      [] pc = "add" -> 3 [] pc = "addRead" -> 4 [] pc = "addWrite" -> 5
      [] pc = "build" -> 6 [] pc = "do" -> 7 [] pc = "stream" -> 8
      [] pc = "done" -> 9
FailureStates ==
    {"FAILED_GLOBAL", "FAILED_PREFIX", "UPSTREAM_REQUEST_ERROR",
     "COMPLETED_WITH_TRANSFER_ERROR"}

\* C19: no failure is retried: a request has at most one upstream call, and
\* none when a gate failed it or the upstream request could not be built; a
\* request in a failure state has returned and stays as it is, and no step
\* of a handler leads back to an earlier place (a branch that fails takes
\* the handler to its return, a call that fails is not issued again).
C19_NoRetry ==
    /\ [](\A i \in Conns :
            /\ req[i].doCalls <= 1
            /\ (req[i].st \in {"FAILED_GLOBAL", "FAILED_PREFIX"} \/ req[i].upErr = "build")
                   => req[i].doCalls = 0
            /\ req[i].st \in FailureStates => Returned(i))
    /\ [][\A i \in Conns :
            (req'[i] # req[i] /\ ~NextRequest(i)) =>
                /\ req[i].st \notin FailureStates
                /\ Rank(req'[i].pc) >= Rank(req[i].pc)
                /\ req'[i].doCalls > req[i].doCalls => Rank(req'[i].pc) > Rank(req[i].pc)
                /\ req'[i].st \in FailureStates \ {"COMPLETED_WITH_TRANSFER_ERROR"}
                       => req[i].pc # "stream"]_vars

\* two requests have returned: the upstream call of one failed, after one
\* call, and the transfer of the other was cut by an injected failure
C19_Witness ==
    /\ started = 2
    /\ \E i, j \in Conns :
         /\ i # j
         /\ req[i].st = "UPSTREAM_REQUEST_ERROR" /\ req[i].upErr = "do"
         /\ req[i].doCalls = 1
         /\ req[j].st = "COMPLETED_WITH_TRANSFER_ERROR" /\ req[j].cause = "inject"

(***************************************************************************)
(* Properties of main (Spec, Spec002, Spec003).                            *)
(***************************************************************************)
\* C14: in every variant a request is handled only with a failure-rate in
\* [0,100]: a rate outside it ends main before the server listens.
C14_ListensOnlyWithValidRate ==
    ((\E i \in Conns : req[i].pc # "idle") \/ req2.pc # "idle" \/ req3.pc # "idle")
        => failureRate \in 0..100

\* C20: once the server listens, every percentage the handler gives to
\* shouldFail lies in [0,100]: failureRate at the global gate (line 32), and
\* failureTransferRate at line 94, which a request has reached when it has
\* evaluated the transfer-abort check.
C20_RatesArePercentages ==
    \A i \in Conns :
        /\ req[i].pc \notin {"idle", "global"} => failureRate \in 0..100
        /\ req[i].checks > 0 => failureTransferRate \in 0..100

(***************************************************************************)
(* Properties of counters.go (SpecCounters).                               *)
(***************************************************************************)
AllReturned == \A c \in Callers : caller[c].pc = "idle"

\* the deltas of the Add calls for method k that have not returned
RECURSIVE PendingIn(_, _)
PendingIn(cs, k) ==
    IF cs = {} THEN 0
    ELSE LET c == CHOOSE c \in cs : TRUE
         IN  (IF caller[c].pc # "idle" /\ caller[c].method = k THEN caller[c].v ELSE 0)
             + PendingIn(cs \ {c}, k)
\* a step of PrintCounters from its Lock to its return
Prints == ticker = "print" /\ ticker' = "wait"

\* C18: PrintCounters runs under the lock of Add: while it holds the lock no
\* Add is between its read and its write; it emits nothing while the map has
\* no entry; otherwise it emits the entries of the map as they are at that
\* instant, one for each method added so far, the counts being those of the
\* Add calls that have returned; and it leaves the map as it is.
C18_PrintIsSnapshot ==
    /\ [](ticker = "print" =>
            /\ m
            /\ \A c \in Callers : caller[c].pc \in {"idle", "lock"})
    /\ [][Prints =>
            /\ data' = data
            /\ DOMAIN data = {} => out' = out
            /\ DOMAIN data # {} =>
                   /\ out' = data
                   /\ \A k \in Methods :
                        IF added[k] - PendingIn(Callers, k) > 0
                        THEN k \in DOMAIN out'
                             /\ out'[k] = added[k] - PendingIn(Callers, k)
                        ELSE k \in DOMAIN out' => out'[k] = 0]_vars
    /\ [][~Prints => out' = out]_vars

\* a dump with both methods was printed while an Add waits for the lock
C18_Witness ==
    /\ ticker = "wait"
    /\ out = data
    /\ DOMAIN out = Methods
    /\ \E c \in Callers : caller[c].pc = "lock"

\* C7: no update is lost: when every Add has returned, the count of each method
\* is the sum of the deltas of the Add calls for it (0 for a method never
\* added); and no step lowers a count or removes an entry, PrintCounters'
\* steps included.
C7_NoLostUpdate ==
    /\ [](AllReturned => \A k \in Methods : Get(k) = added[k])
    /\ [][/\ DOMAIN data \subseteq DOMAIN data'
          /\ \A k \in DOMAIN data : data'[k] >= data[k]]_vars

\* three Add calls for GET from two goroutines have returned, a dump was
\* printed in between, and POST was never added
C7_Witness ==
    /\ AllReturned
    /\ calls = 3
    /\ Get("GET") >= 3
    /\ "POST" \notin DOMAIN data
    /\ out # NewMethodCounters /\ out # data

====
